---- MODULE Spec2Model ----
(***************************************************************************)
(* Live progress client of the paper-agent dashboard: the WebSocket effect *)
(* of the TaskDetail page and of the Analysis page, the task store they    *)
(* write to, and the browser transport and timer events that drive them.   *)
(***************************************************************************)
EXTENDS Integers, Sequences, FiniteSets, TLC

VARIABLES
    site,             \* which page component hosts the effect
    view,             \* the component: "mounted" or "unmounted"
    observed,         \* task status seen by the component's query
    taskId,           \* task the effect is bound to
    taskProgress,     \* held snapshot (store field / useState value)
    taskProgressRef,  \* Analysis: taskProgressRef.current
    wsConnected,      \* store connectivity flag
    ws,               \* closure variable ws: the transport and its onclose slot
    reconnectTimeout, \* closure variable reconnectTimeout
    timers,           \* reconnect callbacks pending in the browser
    isMounted,        \* closure variable isMounted
    capturedStatus,   \* status value captured by the effect closure
    attempts,         \* createWebSocket calls of this client (saturating)
    everOpen,         \* this client's transport has reached the open state
    cleanups,         \* cleanup calls on this client (saturating)
    closedWithHandler,\* close() was called on a transport whose onclose was set
    lastEvent,        \* the callback that ran last, with its frame
    sent,             \* frames sent on the transport by the last callback
    invalidated,      \* queries refetched or invalidated by the last callback
    thrown,           \* the last callback raised an error to its caller
    orphans,          \* transports of this client replaced before they closed
    completedSeen,    \* this client has handled a "completed" message
    call,             \* the api function whose fetchApi call is in flight
    hpc,              \* where that fetchApi call stands
    attempt,          \* fetchApi loop variable
    requests,         \* fetch() calls issued by the fetchApi call
    delays,           \* delays (ms) the fetchApi call has waited
    retried,          \* failures the fetchApi call has retried after
    response,         \* the last response the fetchApi call received
    outcome,          \* what the fetchApi call returned or threw
    toasts,           \* toasts shown by the startAnalysis mutation
    refetched,        \* the mutation has called refetchActiveTask
    activeTaskId,     \* task store field activeTaskId
    taskStatus,       \* task store field taskStatus
    analytics,        \* task store field analytics
    theme,            \* theme store field theme
    storage,          \* localStorage item 'theme'
    rootDark,         \* document root carries the class 'dark'
    prefersDark,      \* the media query (prefers-color-scheme: dark) matches
    layout            \* Layout: "created", or "mounted" once its effect has run

wsVars == <<site, view, observed, taskId, taskProgress, taskProgressRef,
            wsConnected, ws, reconnectTimeout, timers, isMounted,
            capturedStatus, attempts, everOpen, cleanups, closedWithHandler,
            lastEvent, sent, invalidated, thrown, orphans, completedSeen>>

httpVars == <<call, hpc, attempt, requests, delays, retried, response, outcome, toasts,
              refetched>>

taskStoreVars == <<activeTaskId, taskStatus, analytics>>

themeVars == <<theme, storage, rootDark, prefersDark, layout>>

storeVars == <<taskStoreVars, themeVars>>

vars == <<wsVars, httpVars, storeVars>>

(* ------------------------------ bounds --------------------------------- *)
MaxProcessed == 2
MaxAttempts == 3
MaxCleanups == 2

(* ------------------------------ data ----------------------------------- *)
Sites == {"TaskDetail", "Analysis"}
Tasks == {"t1", "t2"}
Statuses == {"none", "running", "completed"}
Stages == {"parsing", "extracting"}
Null == [null |-> TRUE]
Undefined == "undefined"
Now == "now"

Min(a, b) == IF a < b THEN a ELSE b

TotalOf(n) == MaxProcessed + 1
PercentOf(n) == n * 10

\* TaskProgress payload of a "progress" message
ProgressData(t) ==
    { [task_id |-> t, stage |-> s, progress |-> PercentOf(n),
       message |-> <<"Processing", "paper">>, current_paper |-> "paper",
       processed |-> n, total |-> TotalOf(n), timestamp |-> "server"]
      : s \in Stages, n \in 0..MaxProcessed }

\* TaskStatusResponse payload of a "status" message
StatusData(t) ==
    { [task_id |-> t, stage |-> s, progress |-> PercentOf(n),
       current_paper_title |-> IF n = 0 THEN Undefined ELSE "paper",
       processed_papers |-> n, total_papers |-> TotalOf(n),
       updated_at |-> IF n = 0 THEN Undefined ELSE "server"]
      : s \in Stages, n \in 0..MaxProcessed }

Ping == [text |-> "ping", type |-> "", data |-> Null]
Pong == [text |-> "pong", type |-> "", data |-> Null]
Garbage == [text |-> "garbage", type |-> "", data |-> Null]
JsonNull == [text |-> "null", type |-> "", data |-> Null]
Json(ty, d) == [text |-> "json", type |-> ty, data |-> d]
NoFrame == [text |-> "", type |-> "", data |-> Null]

Frames(t) ==
    {Ping, Pong, Garbage, JsonNull}
    \cup { Json("progress", d) : d \in ProgressData(t) }
    \cup { Json("status", d) : d \in StatusData(t) }
    \cup { Json("completed", Null), Json("error", Null), Json("heartbeat", Null) }

Event(k, f) == [kind |-> k, frame |-> f]

NoWs == [readyState |-> "none", onclose |-> FALSE]
NewWs == [readyState |-> "connecting", onclose |-> TRUE]

(* --------------------------- message handler --------------------------- *)
\* JSON.parse of the frame text: the envelope, the JSON value null, or a
\* SyntaxError ("ping", "pong" and garbage are not JSON)
JSON_parse(f) ==
    IF f.text = "json"
    THEN [ok |-> TRUE, value |-> [type |-> f.type, data |-> f.data]]
    ELSE IF f.text = "null"
    THEN [ok |-> TRUE, value |-> Null]
    ELSE [ok |-> FALSE, value |-> Null]

\* the frame reaches the "completed" branch of the handler
HandlesCompleted(f) ==
    LET p == JSON_parse(f) IN
    p.ok /\ p.value # Null /\ p.value.type = "completed"

KeepAliveReplyBoth(text, haveWs) ==
    IF haveWs THEN <<"pong">> ELSE <<>>

KeepAliveReply(text, haveWs) ==
    IF text = "ping" /\ haveWs THEN <<"pong">> ELSE <<>>

OnProgressGuarded(held, d) ==
    IF held = Null \/ d.processed > held.processed THEN d ELSE held

OnProgress(held, d) == d

OrElse(a, b) == IF a = Undefined THEN b ELSE a

StatusSnapshot(d) ==
    [task_id |-> d.task_id, stage |-> d.stage, progress |-> d.progress,
     message |-> <<"Processing", OrElse(d.current_paper_title, "...")>>,
     current_paper |-> d.current_paper_title,
     processed |-> d.processed_papers, total |-> d.total_papers,
     timestamp |-> OrElse(d.updated_at, Now)]

\* the value the status guard reads as currentProgress
CurrentProgress(s, held, ref) == IF s = "TaskDetail" THEN held ELSE ref

StatusAccepted(cur, d) ==
    cur = Null \/ d.processed_papers > cur.processed

OnStatus(cur, held, d) ==
    IF StatusAccepted(cur, d) THEN StatusSnapshot(d) ELSE held

OnCompleted(s, held) == IF s = "Analysis" THEN Null ELSE held

CompletedRefresh(s) ==
    IF s = "TaskDetail"
    THEN <<"taskStatus", "taskResults", "taskAnalytics", "activeTask">>
    ELSE <<"activeTask", "tasks">>

OnParseErrorReset(held) == Null

\* the catch block: the error is dropped and nothing is written
OnParseError(held) == held

TryBlockErrorClears(s, f, held, ref) ==
    LET p == JSON_parse(f) IN
    IF ~p.ok \/ p.value = Null
    THEN [raised |-> TRUE, snapshot |-> held, invalidated |-> <<>>]
    ELSE LET m == p.value IN
         IF m.type = "progress"
         THEN [raised |-> FALSE, snapshot |-> OnProgress(held, m.data),
               invalidated |-> <<>>]
         ELSE IF m.type = "status"
         THEN [raised |-> FALSE,
               snapshot |-> OnStatus(CurrentProgress(s, held, ref), held, m.data),
               invalidated |-> <<>>]
         ELSE IF m.type = "completed"
         THEN [raised |-> FALSE, snapshot |-> OnCompleted(s, held),
               invalidated |-> CompletedRefresh(s)]
         ELSE [raised |-> FALSE, snapshot |-> Null, invalidated |-> <<>>]

\* the try block of ws.onmessage; raised when JSON.parse or a property
\* read of the parsed value throws
TryBlock(s, f, held, ref) ==
    LET p == JSON_parse(f) IN
    IF ~p.ok \/ p.value = Null
    THEN [raised |-> TRUE, snapshot |-> held, invalidated |-> <<>>]
    ELSE LET m == p.value IN
         IF m.type = "progress"
         THEN [raised |-> FALSE, snapshot |-> OnProgress(held, m.data),
               invalidated |-> <<>>]
         ELSE IF m.type = "status"
         THEN [raised |-> FALSE,
               snapshot |-> OnStatus(CurrentProgress(s, held, ref), held, m.data),
               invalidated |-> <<>>]
         ELSE IF m.type = "completed"
         THEN [raised |-> FALSE, snapshot |-> OnCompleted(s, held),
               invalidated |-> CompletedRefresh(s)]
         ELSE [raised |-> FALSE, snapshot |-> held, invalidated |-> <<>>]

\* ws.onmessage: the new snapshot, the frames sent, the queries refreshed
\* and whether an error leaves the handler
OnMessageResult(s, f, held, ref, haveWs) ==
    IF f.text \in {"ping", "pong"}
    THEN [snapshot |-> held, sent |-> KeepAliveReply(f.text, haveWs),
          invalidated |-> <<>>, thrown |-> FALSE]
    ELSE LET t == TryBlock(s, f, held, ref) IN
         IF t.raised
         THEN [snapshot |-> OnParseError(held), sent |-> <<>>,
               invalidated |-> <<>>, thrown |-> FALSE]
         ELSE [snapshot |-> t.snapshot, sent |-> <<>>,
               invalidated |-> t.invalidated, thrown |-> FALSE]

(* ------------------------------ cleanup -------------------------------- *)
Client ==
    [isMounted |-> isMounted, reconnectTimeout |-> reconnectTimeout,
     timers |-> timers, ws |-> ws, closedWithHandler |-> closedWithHandler]

ClearTimeout(c) ==
    IF c.reconnectTimeout = "live"
    THEN [c EXCEPT !.timers = @ - 1, !.reconnectTimeout = "dead"]
    ELSE c

\* WebSocket.close(): a no-op on a transport that is closing or closed
WsClose(c) ==
    [c EXCEPT !.ws.readyState = IF @ \in {"connecting", "open"}
                                THEN "closing" ELSE @,
              !.closedWithHandler = @ \/ c.ws.onclose]

CleanupKeepsTimer(c) ==
    LET c1 == [c EXCEPT !.isMounted = FALSE]
    IN IF c1.ws # NoWs THEN WsClose([c1 EXCEPT !.ws.onclose = FALSE]) ELSE c1

CleanupKeepsHandler(c) ==
    LET c1 == [c EXCEPT !.isMounted = FALSE]
        c2 == IF c1.reconnectTimeout # "null" THEN ClearTimeout(c1) ELSE c1
    IN IF c2.ws # NoWs THEN WsClose(c2) ELSE c2

CleanupToggles(c) ==
    LET c1 == [c EXCEPT !.isMounted = ~@]
        c2 == IF c1.reconnectTimeout # "null" THEN ClearTimeout(c1) ELSE c1
    IN IF c2.ws # NoWs THEN WsClose([c2 EXCEPT !.ws.onclose = FALSE]) ELSE c2

CleanupLeavesOpen(c) ==
    LET c1 == [c EXCEPT !.isMounted = FALSE]
        c2 == IF c1.reconnectTimeout # "null" THEN ClearTimeout(c1) ELSE c1
    IN IF c2.ws # NoWs THEN [c2 EXCEPT !.ws.onclose = FALSE] ELSE c2

\* the function the effect returns
Cleanup(c) ==
    LET c1 == [c EXCEPT !.isMounted = FALSE]
        c2 == IF c1.reconnectTimeout # "null" THEN ClearTimeout(c1) ELSE c1
    IN IF c2.ws # NoWs THEN WsClose([c2 EXCEPT !.ws.onclose = FALSE]) ELSE c2

ShouldReconnectInverted(mounted, status) == ~mounted /\ status = "running"

ShouldReconnectNotRunning(mounted, status) == mounted /\ status # "running"

ShouldReconnect(mounted, status) == mounted /\ status = "running"

(* ------------------------------ fetchApi ------------------------------- *)
Retries == 2
RetryDelayMs == 1000

Endpoints == {"startAnalysis", "getActiveTask", "deleteTask"}

\* response bodies: not JSON, the JSON value null, or an object with a
\* detail field (<<>> when the field is missing or empty)
Malformed == [kind |-> "malformed", detail |-> <<>>]
NullBody == [kind |-> "null", detail |-> <<>>]
Obj(d) == [kind |-> "object", detail |-> d]
ConflictDetail == <<"A task is ", "already running">>
OtherDetail == <<"Query must not be empty">>
Bodies == {Malformed, NullBody, Obj(ConflictDetail), Obj(OtherDetail), Obj(<<>>)}

NoResponse == [ok |-> FALSE, status |-> "", body |-> Malformed]
Responses ==
    { [ok |-> TRUE, status |-> "200", body |-> b] : b \in Bodies }
    \cup { [ok |-> FALSE, status |-> st, body |-> b] : st \in {"409", "500"}, b \in Bodies }

NoError == [name |-> "", message |-> <<>>]
NetworkError == [name |-> "TypeError", message |-> <<"Failed to fetch">>]
NullReadError == [name |-> "TypeError", message |-> <<"Cannot read properties of null">>]
BodySyntaxError == [name |-> "SyntaxError", message |-> <<"Unexpected token">>]
AfterRetriesError == [name |-> "Error", message |-> <<"Failed after retries">>]

NoOutcome == [kind |-> "none", value |-> Malformed, error |-> NoError]
Returned(v) == [kind |-> "value", value |-> v, error |-> NoError]
Threw(e) == [kind |-> "error", value |-> Malformed, error |-> e]

\* String.includes on a message kept as a sequence of pieces
Includes(msg, piece) == \E i \in 1..Len(msg) : msg[i] = piece

\* response.json().catch(() => ({ detail: 'Unknown error' }))
ErrorBody(b) ==
    IF b.kind = "malformed" THEN Obj(<<"Unknown error">>) ELSE b

HttpErrorMessageGeneric(detail, status) == <<"HTTP error ", status>>

\* error.detail || `HTTP error ${response.status}`
HttpErrorMessage(detail, status) ==
    IF detail # <<>> THEN detail ELSE <<"HTTP error ", status>>

\* the try block once fetch has resolved: what it throws into the catch
\* block, or the promise it returns (settled outside the try)
AttemptResponse(r) ==
    IF ~r.ok
    THEN LET e == ErrorBody(r.body) IN
         IF e.kind = "null"
         THEN [kind |-> "throw", outcome |-> Threw(NullReadError)]
         ELSE [kind |-> "throw",
               outcome |-> Threw([name |-> "Error",
                                  message |-> HttpErrorMessage(e.detail, r.status)])]
    ELSE IF r.body.kind = "malformed"
         THEN [kind |-> "return", outcome |-> Threw(BodySyntaxError)]
         ELSE [kind |-> "return", outcome |-> Returned(r.body)]

ShouldRetryUnbounded(att, err) == err.name = "TypeError"

ShouldRetryOffByOne(att, err) == att <= Retries /\ err.name = "TypeError"

\* attempt < retries && error instanceof TypeError
ShouldRetry(att, err) == att < Retries /\ err.name = "TypeError"

ConflictToast ==
    [title |-> "Task Already Running",
     description |-> <<"Please wait for the current task to complete">>]

\* mutation.onError: the toast shown and whether refetchActiveTask is called
OnError(err) ==
    IF Includes(err.message, "already running")
    THEN [toast |-> ConflictToast, refetch |-> TRUE]
    ELSE [toast |-> [title |-> "Error", description |-> err.message],
          refetch |-> FALSE]

\* mutation.onSuccess
OnSuccess(v) ==
    [toast |-> [title |-> "Analysis Started", description |-> <<"Task created">>],
     refetch |-> TRUE]

HttpIdle ==
    /\ call = "none"
    /\ hpc = "idle"
    /\ attempt = 0
    /\ requests = 0
    /\ delays = <<>>
    /\ retried = <<>>
    /\ response = NoResponse
    /\ outcome = NoOutcome
    /\ toasts = <<>>
    /\ refetched = FALSE

(* ------------------------------- stores -------------------------------- *)
\* null in a field whose other values are strings
NullId == "null"

AnalyticsSample == [total_papers |-> MaxProcessed + 1]

\* the state object passed to create() for the task store
TaskStoreCreated ==
    /\ activeTaskId = NullId
    /\ taskStatus = Null
    /\ taskProgress = Null
    /\ analytics = Null
    /\ wsConnected = FALSE

Themes == {"light", "dark"}

\* localStorage.getItem returns null for a key that was never set
Absent == "absent"

\* localStorage.getItem('theme') || 'dark'
InitialTheme(saved) == IF saved # Absent THEN saved ELSE "dark"

ToggleOfStuck(t) == IF t = "light" THEN "dark" ELSE "dark"

\* state.theme === 'light' ? 'dark' : 'light'
ToggleOf(t) == IF t = "light" THEN "dark" ELSE "light"

\* the theme store is created when the module is loaded; the class list
\* of the document root is whatever the page was served with
ThemeCreated ==
    /\ storage \in Themes \cup {Absent}
    /\ theme = InitialTheme(storage)
    /\ rootDark \in BOOLEAN
    /\ prefersDark \in BOOLEAN
    /\ layout = "created"

StoreCreated == TaskStoreCreated /\ ThemeCreated

\* a first visit: nothing stored, light page, light system preference
FirstVisit ==
    /\ storage = Absent
    /\ rootDark = FALSE
    /\ prefersDark = FALSE

(* ------------------------------ actions -------------------------------- *)
Quiet == /\ sent' = <<>>
         /\ invalidated' = <<>>
         /\ thrown' = FALSE

ApplyClient(c) ==
    /\ isMounted' = c.isMounted
    /\ reconnectTimeout' = c.reconnectTimeout
    /\ timers' = c.timers
    /\ ws' = c.ws
    /\ closedWithHandler' = c.closedWithHandler

WsInit ==
    /\ site \in Sites
    /\ view = "mounted"
    /\ observed = "none"
    /\ taskId = "t1"
    /\ taskProgress = Null
    /\ taskProgressRef = Null
    /\ wsConnected = FALSE
    /\ ws = NoWs
    /\ reconnectTimeout = "null"
    /\ timers = 0
    /\ isMounted = FALSE
    /\ capturedStatus = "none"
    /\ attempts = 0
    /\ everOpen = FALSE
    /\ cleanups = 0
    /\ closedWithHandler = FALSE
    /\ lastEvent = Event("init", NoFrame)
    /\ sent = <<>>
    /\ invalidated = <<>>
    /\ thrown = FALSE
    /\ orphans = 0
    /\ completedSeen = FALSE

Init == WsInit /\ HttpIdle /\ StoreCreated /\ FirstVisit

\* the query delivers a new status: the effect's dependencies change, the
\* previous run's cleanup is called and the effect body runs again
ObserveStatus(s) ==
    /\ view = "mounted"
    /\ s # observed
    /\ observed' = s
    /\ taskProgressRef' = IF site = "Analysis" THEN taskProgress ELSE taskProgressRef
    /\ IF s = "running"
       THEN /\ ws' = NewWs
            /\ reconnectTimeout' = "null"
            /\ isMounted' = TRUE
            /\ timers' = timers
            /\ capturedStatus' = s
            /\ attempts' = 1
            /\ everOpen' = FALSE
            /\ cleanups' = 0
            /\ closedWithHandler' = FALSE
            /\ orphans' = 0
            /\ completedSeen' = FALSE
            /\ UNCHANGED <<taskProgress, wsConnected>>
       ELSE /\ IF observed = "running"
               THEN /\ ApplyClient(Cleanup(Client))
                    /\ cleanups' = Min(cleanups + 1, MaxCleanups)
               ELSE UNCHANGED <<isMounted, reconnectTimeout, timers, ws,
                                closedWithHandler, cleanups>>
            /\ wsConnected' = IF site = "TaskDetail" THEN FALSE ELSE wsConnected
            /\ taskProgress' = IF site = "Analysis" THEN Null ELSE taskProgress
            /\ UNCHANGED <<capturedStatus, attempts, everOpen, orphans,
                           completedSeen>>
    /\ lastEvent' = Event("observe", NoFrame)
    /\ UNCHANGED <<httpVars, storeVars>>
    /\ Quiet
    /\ UNCHANGED <<site, view, taskId>>

\* the component is bound to another task (route parameter, or another
\* active task): the previous run's cleanup is called and the effect body
\* runs again for the new task
SwitchTask(t, s) ==
    /\ view = "mounted"
    /\ t # taskId
    /\ taskId' = t
    /\ observed' = s
    /\ taskProgressRef' = IF site = "Analysis" THEN taskProgress ELSE taskProgressRef
    /\ LET c == IF observed = "running" THEN Cleanup(Client) ELSE Client IN
       IF s = "running"
       THEN /\ ws' = NewWs
            /\ reconnectTimeout' = "null"
            /\ isMounted' = TRUE
            /\ timers' = c.timers
            /\ capturedStatus' = s
            /\ attempts' = 1
            /\ everOpen' = FALSE
            /\ cleanups' = 0
            /\ closedWithHandler' = FALSE
            /\ orphans' = 0
            /\ completedSeen' = FALSE
            /\ UNCHANGED <<taskProgress, wsConnected>>
       ELSE /\ ApplyClient(c)
            /\ cleanups' = IF observed = "running"
                           THEN Min(cleanups + 1, MaxCleanups) ELSE cleanups
            /\ wsConnected' = IF site = "TaskDetail" THEN FALSE ELSE wsConnected
            /\ taskProgress' = IF site = "Analysis" THEN Null ELSE taskProgress
            /\ UNCHANGED <<capturedStatus, attempts, everOpen, orphans,
                           completedSeen>>
    /\ lastEvent' = Event("observe", NoFrame)
    /\ UNCHANGED <<httpVars, storeVars>>
    /\ Quiet
    /\ UNCHANGED <<site, view>>

\* the component is discarded: only the cleanup runs
Unmount ==
    /\ view = "mounted"
    /\ view' = "unmounted"
    /\ IF observed = "running"
       THEN /\ ApplyClient(Cleanup(Client))
            /\ cleanups' = Min(cleanups + 1, MaxCleanups)
       ELSE UNCHANGED <<isMounted, reconnectTimeout, timers, ws,
                        closedWithHandler, cleanups>>
    /\ lastEvent' = Event("stop", NoFrame)
    /\ UNCHANGED <<orphans, completedSeen, httpVars, storeVars>>
    /\ Quiet
    /\ UNCHANGED <<site, observed, taskId, taskProgress, taskProgressRef,
                   wsConnected, capturedStatus, attempts, everOpen>>

\* the cleanup function called again on a client it has already stopped
StopAgain ==
    /\ ws # NoWs
    /\ ~isMounted
    /\ ApplyClient(Cleanup(Client))
    /\ cleanups' = Min(cleanups + 1, MaxCleanups)
    /\ lastEvent' = Event("stop", NoFrame)
    /\ UNCHANGED <<orphans, completedSeen, httpVars, storeVars>>
    /\ Quiet
    /\ UNCHANGED <<site, view, observed, taskId, taskProgress, taskProgressRef,
                   wsConnected, capturedStatus, attempts, everOpen>>

WsOpenResets ==
    /\ ws.readyState = "connecting"
    /\ ws' = [ws EXCEPT !.readyState = "open"]
    /\ wsConnected' = IF site = "TaskDetail" THEN TRUE ELSE wsConnected
    /\ taskProgress' = Null
    /\ everOpen' = TRUE
    /\ lastEvent' = Event("open", NoFrame)
    /\ UNCHANGED <<orphans, completedSeen, httpVars, storeVars>>
    /\ Quiet
    /\ UNCHANGED <<site, view, observed, taskId, taskProgressRef,
                   reconnectTimeout, timers, isMounted, capturedStatus,
                   attempts, cleanups, closedWithHandler>>

\* ws.onopen
WsOpen ==
    /\ ws.readyState = "connecting"
    /\ ws' = [ws EXCEPT !.readyState = "open"]
    /\ wsConnected' = IF site = "TaskDetail" THEN TRUE ELSE wsConnected
    /\ everOpen' = TRUE
    /\ lastEvent' = Event("open", NoFrame)
    /\ UNCHANGED <<orphans, completedSeen, httpVars, storeVars>>
    /\ Quiet
    /\ UNCHANGED <<site, view, observed, taskId, taskProgress, taskProgressRef,
                   reconnectTimeout, timers, isMounted, capturedStatus,
                   attempts, cleanups, closedWithHandler>>

\* ws.onmessage
WsMessage(f) ==
    /\ ws.readyState = "open"
    /\ LET r == OnMessageResult(site, f, taskProgress, taskProgressRef, ws # NoWs)
       IN /\ taskProgress' = r.snapshot
          /\ sent' = r.sent
          /\ invalidated' = r.invalidated
          /\ thrown' = r.thrown
    /\ completedSeen' = (completedSeen \/ HandlesCompleted(f))
    /\ lastEvent' = Event("message", f)
    /\ UNCHANGED <<orphans, httpVars, storeVars>>
    /\ UNCHANGED <<site, view, observed, taskId, taskProgressRef, wsConnected,
                   ws, reconnectTimeout, timers, isMounted, capturedStatus,
                   attempts, everOpen, cleanups, closedWithHandler>>

WsErrorReconnects ==
    /\ ws.readyState \in {"connecting", "open", "closing"}
    /\ lastEvent' = Event("error", NoFrame)
    /\ UNCHANGED <<orphans, completedSeen, httpVars, storeVars>>
    /\ Quiet
    /\ IF isMounted
       THEN /\ reconnectTimeout' = "live"
            /\ timers' = timers + 1
       ELSE UNCHANGED <<reconnectTimeout, timers>>
    /\ UNCHANGED <<site, view, observed, taskId, taskProgress, taskProgressRef,
                   wsConnected, ws, isMounted, capturedStatus, attempts,
                   everOpen, cleanups, closedWithHandler>>

WsErrorDisconnects ==
    /\ ws.readyState \in {"connecting", "open", "closing"}
    /\ lastEvent' = Event("error", NoFrame)
    /\ UNCHANGED <<orphans, completedSeen, httpVars, storeVars>>
    /\ Quiet
    /\ wsConnected' = FALSE
    /\ UNCHANGED <<site, view, observed, taskId, taskProgress, taskProgressRef,
                   ws, reconnectTimeout, timers, isMounted, capturedStatus,
                   attempts, everOpen, cleanups, closedWithHandler>>

\* ws.onerror
WsError ==
    /\ ws.readyState \in {"connecting", "open", "closing"}
    /\ lastEvent' = Event("error", NoFrame)
    /\ UNCHANGED <<orphans, completedSeen, httpVars, storeVars>>
    /\ Quiet
    /\ UNCHANGED <<site, view, observed, taskId, taskProgress, taskProgressRef,
                   wsConnected, ws, reconnectTimeout, timers, isMounted,
                   capturedStatus, attempts, everOpen, cleanups,
                   closedWithHandler>>

\* the transport closes; ws.onclose runs when it is still set
WsClosed ==
    /\ ws.readyState \in {"connecting", "open", "closing"}
    /\ ws' = [ws EXCEPT !.readyState = "closed"]
    /\ IF ws.onclose
       THEN /\ wsConnected' = IF site = "TaskDetail" THEN FALSE ELSE wsConnected
            /\ IF ShouldReconnect(isMounted, capturedStatus)
               THEN /\ reconnectTimeout' = "live"
                    /\ timers' = timers + 1
               ELSE UNCHANGED <<reconnectTimeout, timers>>
       ELSE UNCHANGED <<wsConnected, reconnectTimeout, timers>>
    /\ lastEvent' = Event("close", NoFrame)
    /\ UNCHANGED <<orphans, completedSeen, httpVars, storeVars>>
    /\ Quiet
    /\ UNCHANGED <<site, view, observed, taskId, taskProgress, taskProgressRef,
                   isMounted, capturedStatus, attempts, everOpen, cleanups,
                   closedWithHandler>>

\* the reconnect timer fires and calls connect()
TimerFire ==
    /\ timers > 0
    /\ timers' = timers - 1
    /\ reconnectTimeout' = IF reconnectTimeout = "live" THEN "dead"
                           ELSE reconnectTimeout
    /\ IF isMounted
       THEN /\ ws' = NewWs
            /\ attempts' = Min(attempts + 1, MaxAttempts)
            /\ orphans' = IF ws.readyState \in {"connecting", "open", "closing"}
                           THEN orphans + 1 ELSE orphans
       ELSE UNCHANGED <<ws, attempts, orphans>>
    /\ lastEvent' = Event("timer", NoFrame)
    /\ UNCHANGED <<completedSeen, httpVars, storeVars>>
    /\ Quiet
    /\ UNCHANGED <<site, view, observed, taskId, taskProgress, taskProgressRef,
                   wsConnected, isMounted, capturedStatus, everOpen, cleanups,
                   closedWithHandler>>

\* Analysis re-renders and its ref-sync effect runs
Render ==
    /\ site = "Analysis"
    /\ view = "mounted"
    /\ taskProgressRef # taskProgress
    /\ taskProgressRef' = taskProgress
    /\ lastEvent' = Event("render", NoFrame)
    /\ UNCHANGED <<orphans, completedSeen, httpVars, storeVars>>
    /\ Quiet
    /\ UNCHANGED <<site, view, observed, taskId, taskProgress, wsConnected,
                   ws, reconnectTimeout, timers, isMounted, capturedStatus,
                   attempts, everOpen, cleanups, closedWithHandler>>

Next ==
    \/ \E s \in Statuses : ObserveStatus(s)
    \/ \E t \in Tasks, s \in Statuses : SwitchTask(t, s)
    \/ Unmount
    \/ StopAgain
    \/ WsOpen
    \/ \E f \in Frames(taskId) : WsMessage(f)
    \/ WsError
    \/ WsClosed
    \/ TimerFire
    \/ Render

Spec == Init /\ [][Next]_vars

\* the browser runs every timer callback that is not cleared
LiveSpec == Spec /\ WF_vars(TimerFire)

(* --------------------------- fetchApi actions -------------------------- *)
\* an api function calls fetchApi: the first fetch is issued
HttpCall(e) ==
    /\ hpc = "idle"
    /\ call' = e
    /\ hpc' = "fetching"
    /\ attempt' = 0
    /\ requests' = 1
    /\ UNCHANGED <<delays, retried, response, outcome, toasts, refetched>>
    /\ UNCHANGED <<wsVars, storeVars>>

\* the catch block: wait and retry, or rethrow
Catch(out, src) ==
    IF ShouldRetry(attempt, out.error)
    THEN /\ hpc' = "waiting"
         /\ delays' = Append(delays, RetryDelayMs)
         /\ retried' = Append(retried, src)
         /\ UNCHANGED outcome
    ELSE /\ hpc' = "done"
         /\ outcome' = out
         /\ UNCHANGED <<delays, retried>>

\* fetch rejects: a network-level failure
FetchRejects ==
    /\ hpc = "fetching"
    /\ Catch(Threw(NetworkError), "network")
    /\ UNCHANGED <<call, attempt, requests, response, toasts, refetched>>
    /\ UNCHANGED <<wsVars, storeVars>>

\* fetch resolves with a response
FetchResolves(r) ==
    /\ hpc = "fetching"
    /\ response' = r
    /\ LET a == AttemptResponse(r) IN
       IF a.kind = "throw"
       THEN Catch(a.outcome, r.status)
       ELSE /\ hpc' = "done"
            /\ outcome' = a.outcome
            /\ UNCHANGED <<delays, retried>>
    /\ UNCHANGED <<call, attempt, requests, toasts, refetched>>
    /\ UNCHANGED <<wsVars, storeVars>>

\* the delay is over: the loop continues with the next attempt, or ends
DelayElapsed ==
    /\ hpc = "waiting"
    /\ attempt' = attempt + 1
    /\ IF attempt + 1 <= Retries
       THEN /\ hpc' = "fetching"
            /\ requests' = requests + 1
            /\ UNCHANGED outcome
       ELSE /\ hpc' = "done"
            /\ outcome' = Threw(AfterRetriesError)
            /\ UNCHANGED requests
    /\ UNCHANGED <<call, delays, retried, response, toasts, refetched>>
    /\ UNCHANGED <<wsVars, storeVars>>

\* the startAnalysis mutation settles: onSuccess or onError runs
MutationSettled ==
    /\ hpc = "done"
    /\ call = "startAnalysis"
    /\ hpc' = "settled"
    /\ LET h == IF outcome.kind = "error" THEN OnError(outcome.error)
                ELSE OnSuccess(outcome.value)
       IN /\ toasts' = Append(toasts, h.toast)
          /\ refetched' = h.refetch
    /\ UNCHANGED <<call, attempt, requests, delays, retried, response, outcome>>
    /\ UNCHANGED <<wsVars, storeVars>>

FetchInit == WsInit /\ site = "Analysis" /\ HttpIdle /\ StoreCreated /\ FirstVisit

FetchNext ==
    \/ \E e \in Endpoints : HttpCall(e)
    \/ FetchRejects
    \/ \E r \in Responses : FetchResolves(r)
    \/ DelayElapsed
    \/ MutationSettled

FetchSpec == FetchInit /\ [][FetchNext]_vars

\* every fetch settles and every timeout elapses
FetchLiveSpec ==
    /\ FetchSpec
    /\ WF_vars(FetchRejects \/ \E r \in Responses : FetchResolves(r))
    /\ WF_vars(DelayElapsed)

(* ----------------------------- store actions --------------------------- *)
\* every variable of the client except the two store fields and lastEvent
clientVars == <<site, view, observed, taskId, taskProgressRef, ws,
                reconnectTimeout, timers, isMounted, capturedStatus, attempts,
                everOpen, cleanups, closedWithHandler, sent, invalidated,
                thrown, orphans, completedSeen>>

SetActiveTask(v) ==
    /\ activeTaskId' = v
    /\ lastEvent' = Event("setActiveTask", NoFrame)
    /\ UNCHANGED <<taskStatus, taskProgress, analytics, wsConnected>>
    /\ UNCHANGED <<clientVars, httpVars, themeVars>>

SetTaskStatus(v) ==
    /\ taskStatus' = v
    /\ lastEvent' = Event("setTaskStatus", NoFrame)
    /\ UNCHANGED <<activeTaskId, taskProgress, analytics, wsConnected>>
    /\ UNCHANGED <<clientVars, httpVars, themeVars>>

SetTaskProgress(v) ==
    /\ taskProgress' = v
    /\ lastEvent' = Event("setTaskProgress", NoFrame)
    /\ UNCHANGED <<activeTaskId, taskStatus, analytics, wsConnected>>
    /\ UNCHANGED <<clientVars, httpVars, themeVars>>

SetAnalytics(v) ==
    /\ analytics' = v
    /\ lastEvent' = Event("setAnalytics", NoFrame)
    /\ UNCHANGED <<activeTaskId, taskStatus, taskProgress, wsConnected>>
    /\ UNCHANGED <<clientVars, httpVars, themeVars>>

SetWsConnected(v) ==
    /\ wsConnected' = v
    /\ lastEvent' = Event("setWsConnected", NoFrame)
    /\ UNCHANGED <<activeTaskId, taskStatus, taskProgress, analytics>>
    /\ UNCHANGED <<clientVars, httpVars, themeVars>>

ResetKeepsFlag ==
    /\ activeTaskId' = NullId
    /\ taskStatus' = Null
    /\ taskProgress' = Null
    /\ analytics' = Null
    /\ lastEvent' = Event("reset", NoFrame)
    /\ UNCHANGED <<wsConnected, clientVars, httpVars, themeVars>>

Reset ==
    /\ activeTaskId' = NullId
    /\ taskStatus' = Null
    /\ taskProgress' = Null
    /\ analytics' = Null
    /\ wsConnected' = FALSE
    /\ lastEvent' = Event("reset", NoFrame)
    /\ UNCHANGED <<clientVars, httpVars, themeVars>>

\* the body of setTheme
ApplyTheme(t) ==
    /\ storage' = t
    /\ rootDark' = (t = "dark")
    /\ theme' = t

\* Layout's mount effect
LayoutMount ==
    /\ layout = "created"
    /\ layout' = "mounted"
    /\ IF storage # Absent
       THEN ApplyTheme(storage)
       ELSE IF prefersDark
       THEN ApplyTheme("dark")
       ELSE UNCHANGED <<theme, storage, rootDark>>
    /\ lastEvent' = Event("layoutMount", NoFrame)
    /\ UNCHANGED <<prefersDark, taskStoreVars, taskProgress, wsConnected>>
    /\ UNCHANGED <<clientVars, httpVars>>

\* a click on one of Layout's theme buttons
ToggleTheme ==
    /\ layout = "mounted"
    /\ LET newTheme == ToggleOf(theme) IN
       /\ storage' = newTheme
       /\ rootDark' = (newTheme = "dark")
       /\ theme' = newTheme
    /\ lastEvent' = Event("toggleTheme", NoFrame)
    /\ UNCHANGED <<prefersDark, layout, taskStoreVars, taskProgress, wsConnected>>
    /\ UNCHANGED <<clientVars, httpVars>>

SetTheme(t) ==
    /\ layout = "mounted"
    /\ ApplyTheme(t)
    /\ lastEvent' = Event("setTheme", NoFrame)
    /\ UNCHANGED <<prefersDark, layout, taskStoreVars, taskProgress, wsConnected>>
    /\ UNCHANGED <<clientVars, httpVars>>

StoreInit == WsInit /\ site = "TaskDetail" /\ HttpIdle /\ StoreCreated

StoreNext ==
    \/ \E v \in Tasks \cup {NullId} : SetActiveTask(v)
    \/ \E v \in StatusData("t1") \cup {Null} : SetTaskStatus(v)
    \/ \E v \in ProgressData("t1") \cup {Null} : SetTaskProgress(v)
    \/ \E v \in {AnalyticsSample, Null} : SetAnalytics(v)
    \/ \E v \in BOOLEAN : SetWsConnected(v)
    \/ Reset
    \/ LayoutMount
    \/ ToggleTheme
    \/ \E t \in Themes : SetTheme(t)

StoreSpec == StoreInit /\ [][StoreNext]_vars

(* ------------------------------ claims --------------------------------- *)
IsMessage(e, ty) == e.kind = "message" /\ e.frame.text = "json" /\ e.frame.type = ty
Stopped == ws # NoWs /\ ~isMounted

\* C1: after a "progress" message is handled the held snapshot equals that
\* message's payload, whatever snapshot was held and whatever "status"
\* messages were handled before it.
C1_ProgressReplaces ==
    IsMessage(lastEvent, "progress") => taskProgress = lastEvent.frame.data

\* a progress payload with processed 0 has replaced a snapshot with a higher
\* processed count (the Analysis ref still shows the replaced snapshot)
C1_Witness ==
    /\ IsMessage(lastEvent, "progress")
    /\ lastEvent.frame.data.processed = 0
    /\ taskProgress = lastEvent.frame.data
    /\ taskProgressRef # Null
    /\ taskProgressRef.processed = MaxProcessed

\* C2: recency guard. With a snapshot of processed = N held, a handled
\* "status" message with processed_papers <= N leaves the held snapshot
\* unchanged and one with processed_papers > N replaces it.
C2_RecencyGuard ==
    [][(IsMessage(lastEvent', "status") /\ taskProgress # Null)
       => IF lastEvent'.frame.data.processed_papers <= taskProgress.processed
          THEN taskProgress' = taskProgress
          ELSE taskProgress' = StatusSnapshot(lastEvent'.frame.data)]_vars

\* C3: with no snapshot held, a handled "status" message is accepted: the
\* held snapshot takes task_id, stage, progress, processed and total from it.
C3_FirstStatusAccepted ==
    [][(IsMessage(lastEvent', "status") /\ taskProgress = Null)
       => /\ taskProgress' # Null
          /\ taskProgress'.task_id = lastEvent'.frame.data.task_id
          /\ taskProgress'.stage = lastEvent'.frame.data.stage
          /\ taskProgress'.progress = lastEvent'.frame.data.progress
          /\ taskProgress'.processed = lastEvent'.frame.data.processed_papers
          /\ taskProgress'.total = lastEvent'.frame.data.total_papers]_vars

\* C4: once the cleanup has run on a client whose transport never reached the
\* open state, no reconnect timer is pending, whatever events follow.
C4_StopBeforeOpen ==
    (Stopped /\ ~everOpen) => (timers = 0 /\ reconnectTimeout # "live")

\* the transport of a client stopped before open has delivered its close event
C4_Witness ==
    /\ Stopped
    /\ ~everOpen
    /\ lastEvent.kind = "close"
    /\ ws.readyState = "closed"

\* C5: the cleanup cancels a pending timer and an in-flight attempt: in every
\* state of a stopped client no timer is pending, the transport is neither
\* connecting nor open, close() was never called with onclose still set, and
\* a stopped client creates no further transport.
C5_StopCancels ==
    [][(ws' # NoWs /\ ~isMounted')
       => /\ timers' = 0
          /\ ws'.readyState \in {"closing", "closed"}
          /\ ~ws'.onclose
          /\ ~closedWithHandler'
          /\ (Stopped => attempts' = attempts)]_vars

\* the cleanup ran while the reconnect timer was pending and cleared it
C5_Witness ==
    /\ Stopped
    /\ lastEvent.kind = "stop"
    /\ cleanups = 1
    /\ ws.readyState = "closed"
    /\ reconnectTimeout = "dead"

\* C6: the cleanup called on a client it has already stopped changes no
\* client state and raises no error.
C6_StopIdempotent ==
    [][(Stopped /\ lastEvent'.kind = "stop")
       => /\ UNCHANGED <<isMounted, reconnectTimeout, timers, ws,
                         taskProgress, taskProgressRef, wsConnected>>
          /\ ~thrown']_vars

\* the cleanup has run twice on one client, the second time right after the
\* first
C6_Witness ==
    /\ Stopped
    /\ lastEvent.kind = "stop"
    /\ cleanups = 2
    /\ ws.readyState = "closing"

\* C7: whenever the transport is closed and the client is mounted, a new
\* connection attempt follows unless the client is stopped first, however
\* many attempts the client has already made.
C7_ReconnectLiveness ==
    \A n \in 1..MaxAttempts :
        (isMounted /\ ws.readyState = "closed" /\ attempts = n)
            ~> (ws.readyState = "connecting" \/ ~isMounted)

\* a timer has started yet another attempt of a client that never connected
C7_Witness ==
    /\ isMounted
    /\ ~everOpen
    /\ attempts = MaxAttempts
    /\ lastEvent.kind = "timer"
    /\ ws.readyState = "connecting"

NoDuplicates(q) == \A i, j \in 1..Len(q) : q[i] = q[j] => i = j

\* C8: after a "completed" message is handled the held snapshot is empty and
\* the owner's refresh has fired once.
C8_CompletedClears ==
    IsMessage(lastEvent, "completed")
        => /\ taskProgress = Null
           /\ invalidated # <<>>
           /\ NoDuplicates(invalidated)

\* C9: a "ping" frame sends exactly one "pong" and a "pong" frame sends
\* nothing; neither changes the held snapshot or the connectivity flag.
C9_KeepAlive ==
    [][(lastEvent'.kind = "message" /\ lastEvent'.frame.text \in {"ping", "pong"})
       => /\ sent' = IF lastEvent'.frame.text = "ping" THEN <<"pong">> ELSE <<>>
          /\ UNCHANGED <<taskProgress, wsConnected>>]_vars

\* a ping was answered while a snapshot was held
C9_Witness ==
    /\ lastEvent = Event("message", Ping)
    /\ sent = <<"pong">>
    /\ taskProgress # Null

\* C10: a frame that is not JSON changes neither the held snapshot nor the
\* connectivity flag, leaves the transport and the timer alone and raises
\* no error.
C10_ParseErrorIgnored ==
    [][(lastEvent'.kind = "message" /\ lastEvent'.frame.text = "garbage")
       => /\ UNCHANGED <<taskProgress, wsConnected, ws, reconnectTimeout, timers>>
          /\ ~thrown']_vars

\* garbage was handled on an open transport while a snapshot was held
C10_Witness ==
    /\ lastEvent = Event("message", Garbage)
    /\ taskProgress # Null
    /\ ws.readyState = "open"

Done == hpc \in {"done", "settled"}

\* C11 as stated: a fetchApi call retries once, so it issues at most two
\* requests and waits at most one delay.
C11_RetriesOnce ==
    requests <= 2 /\ Len(delays) <= 1

\* C11 amended: a fetchApi call issues at most Retries + 1 = 3 requests, has
\* waited one 1000 ms delay before every request after the first, and lets a
\* network failure through only when the third request has failed.
C11_RetriesTwice ==
    /\ requests <= Retries + 1
    /\ \A i \in 1..Len(delays) : delays[i] = RetryDelayMs
    /\ hpc = "waiting" => Len(delays) = requests
    /\ hpc \in {"fetching", "done", "settled"} => Len(delays) = requests - 1
    /\ (Done /\ outcome = Threw(NetworkError)) => requests = Retries + 1

\* three requests failed at network level and the error reached the caller
C11_Witness ==
    /\ hpc = "done"
    /\ outcome = Threw(NetworkError)
    /\ retried = <<"network", "network">>
    /\ requests = 3

ConflictResponse ==
    /\ response # NoResponse
    /\ ~response.ok
    /\ response.body.kind = "object"
    /\ Includes(response.body.detail, "already running")

\* C12: a failed startAnalysis call shows exactly one toast: 'Task Already
\* Running' with a refetch of the active task when the server's error detail
\* says a task is already running, the generic 'Error' toast carrying the
\* error message and no refetch for every other failure.
C12_ConflictDistinct ==
    (hpc = "settled" /\ outcome.kind = "error")
        => /\ Len(toasts) = 1
           /\ ConflictResponse => (toasts[1] = ConflictToast /\ refetched)
           /\ ~ConflictResponse
                => /\ toasts[1].title = "Error"
                   /\ toasts[1].description = outcome.error.message
                   /\ ~refetched

\* a 409 response with the conflict detail was surfaced as the distinct toast
C12_Witness ==
    /\ hpc = "settled"
    /\ response.status = "409"
    /\ ConflictResponse
    /\ toasts = <<ConflictToast>>
    /\ refetched

\* C13: a close event schedules a reconnect timer exactly when the client is
\* mounted and the observed status is "running"; otherwise the timers are
\* left alone.
C13_CloseSchedules ==
    [][lastEvent'.kind = "close"
       => IF isMounted /\ observed = "running"
          THEN timers' = timers + 1 /\ reconnectTimeout' = "live"
          ELSE UNCHANGED <<timers, reconnectTimeout>>]_vars

\* a close of a transport that had been open scheduled the reconnect
C13_Witness ==
    /\ lastEvent.kind = "close"
    /\ isMounted
    /\ everOpen
    /\ reconnectTimeout = "live"
    /\ timers = 1

\* C14: whenever the observed status is not "running" or the view is
\* unmounted, no transport is connecting or open and no timer is pending;
\* a transport is created only while the status is "running" and the view
\* is mounted.
C14_TornDown ==
    [][/\ (observed' # "running" \/ view' = "unmounted")
            => (ws'.readyState \notin {"connecting", "open"} /\ timers' = 0)
       /\ (ws'.readyState = "connecting" /\ ws.readyState # "connecting")
            => (observed' = "running" /\ view' = "mounted")]_vars

\* the status left "running" while the transport was open
C14_Witness ==
    /\ observed = "completed"
    /\ Stopped
    /\ everOpen
    /\ ws.readyState = "closing"
    /\ lastEvent.kind = "observe"

\* C15: a client never has a transport it replaced before it closed, never
\* more than one pending timer, never a pending timer together with a
\* connecting or open transport, and its timer creates a transport only
\* when the previous one is closed.
C15_SingleTransport ==
    [][/\ orphans' = 0
       /\ timers' <= 1
       /\ ~(timers' > 0 /\ ws'.readyState \in {"connecting", "open"})
       /\ (lastEvent'.kind = "timer" /\ ws'.readyState = "connecting")
            => ws.readyState = "closed"]_vars

\* the timer has replaced a closed transport that had been open
C15_Witness ==
    /\ lastEvent.kind = "timer"
    /\ ws.readyState = "connecting"
    /\ everOpen
    /\ attempts >= 2
    /\ timers = 0

\* C16: after the open handler has run the connectivity flag is true, and
\* after the close handler has run it is false.
C16_FlagFollowsTransport ==
    /\ lastEvent.kind = "open" => wsConnected
    /\ (lastEvent.kind = "close" /\ ws.onclose) => ~wsConnected

\* C17: the error handler changes no client state, and a reconnect timer is
\* only ever scheduled by a close event.
C17_ErrorInert ==
    [][/\ lastEvent'.kind = "error"
            => UNCHANGED <<taskProgress, taskProgressRef, wsConnected, ws,
                           reconnectTimeout, timers, isMounted>>
       /\ timers' > timers => lastEvent'.kind = "close"]_vars

\* an error was handled on an open transport with the flag set and a
\* snapshot held
C17_Witness ==
    /\ lastEvent.kind = "error"
    /\ ws.readyState = "open"
    /\ wsConnected
    /\ taskProgress # Null

\* connection state of the client
Phase ==
    IF ws = NoWs THEN "Idle"
    ELSE IF ~isMounted THEN "Stopped"
    ELSE IF ws.readyState = "connecting" THEN "Connecting"
    ELSE IF ws.readyState = "open" THEN "Connected"
    ELSE IF ws.readyState = "closed" /\ timers > 0 THEN "Disconnected"
    ELSE "Other"

\* the effect body creates a new client
NewClient == lastEvent'.kind = "observe" /\ isMounted'

ClaimedTransitions ==
    { <<"Idle", "Connecting">>, <<"Connecting", "Connected">>,
      <<"Connected", "Disconnected">>, <<"Disconnected", "Connecting">> }

\* C18 as stated: every change of the connection state is start, open,
\* close of a connected transport, timer, or stop.
C18_ClaimedTransitions ==
    [][\/ Phase' = Phase
       \/ <<Phase, Phase'>> \in ClaimedTransitions
       \/ Phase' = "Stopped"
       \/ NewClient]_vars

\* C18 amended: every change of the connection state is start, open, close
\* of a connecting or connected transport, timer, or stop.
C18_Transitions ==
    [][\/ Phase' = Phase
       \/ <<Phase, Phase'>>
            \in ClaimedTransitions \cup { <<"Connecting", "Disconnected">> }
       \/ Phase' = "Stopped"
       \/ NewClient]_vars

\* a transport closed before it opened and the reconnect is pending
C18_Witness ==
    /\ Phase = "Disconnected"
    /\ ~everOpen
    /\ lastEvent.kind = "close"

\* C19: a callback of the client changes the held snapshot only in the
\* Connected or Disconnected state, never in Idle, Connecting or Stopped.
C19_SnapshotOnlyWhenConnected ==
    [][(taskProgress' # taskProgress /\ lastEvent'.kind # "observe")
       => Phase \in {"Connected", "Disconnected"}]_vars

\* a reconnect is under way while a snapshot is held
C19_Witness ==
    /\ Phase = "Connecting"
    /\ lastEvent.kind = "timer"
    /\ taskProgress # Null

\* C20: no failure is retried after a response was received; a non-OK
\* response is propagated as an Error carrying its detail, 'HTTP error
\* <status>' or 'Unknown error'; every error that reaches the caller is a
\* network failure or such a server-reported error.
C20_OnlyNetworkRetried ==
    /\ \A i \in 1..Len(retried) : retried[i] = "network"
    /\ (Done /\ outcome.kind = "error")
         => \/ outcome.error = NetworkError
            \/ /\ ~response.ok
               /\ outcome.error.name = "Error"
               /\ outcome.error.message
                    \in {response.body.detail, <<"HTTP error ", response.status>>,
                         <<"Unknown error">>}

\* C21: in Analysis the value the status guard reads (taskProgressRef.current)
\* equals the held snapshot whenever a message handler runs.
C21_RefCurrent ==
    [][(site = "Analysis" /\ lastEvent'.kind = "message")
       => taskProgressRef = taskProgress]_vars

\* C22: while a client is bound to task T, the held snapshot is empty or has
\* task_id = T.
C22_SnapshotOfBoundTask ==
    (isMounted /\ taskProgress # Null) => taskProgress.task_id = taskId

\* C23: the connectivity flag is true only while the view is mounted and its
\* client's transport is open.
C23_FlagAccurate ==
    wsConnected => (view = "mounted" /\ isMounted /\ ws.readyState = "open")

\* C24: once a client has handled a "completed" message, a close event
\* schedules no reconnect and the client creates no further transport.
C24_NoReconnectAfterCompleted ==
    [][completedSeen
       => /\ lastEvent'.kind = "close" => UNCHANGED <<timers, reconnectTimeout>>
          /\ lastEvent'.kind = "timer" => ws' = ws]_vars

OtherSite(s) == IF s = "TaskDetail" THEN "Analysis" ELSE "TaskDetail"

\* C25: the two call sites are equivalent: the snapshot a site holds after a
\* message equals the snapshot the other site would hold after the same
\* message from the same state.
C25_SitesEquivalent ==
    [][lastEvent'.kind = "message"
       => taskProgress'
            = OnMessageResult(OtherSite(site), lastEvent'.frame, taskProgress,
                              taskProgress, TRUE).snapshot]_vars

\* C26: a JSON message whose type is "error", or any type other than
\* "status", "progress" and "completed", changes neither the held snapshot
\* nor the connectivity flag nor the transport nor the timer, refreshes no
\* query and sends nothing.
C26_OtherTypesIgnored ==
    [][(/\ lastEvent'.kind = "message"
        /\ lastEvent'.frame.text = "json"
        /\ lastEvent'.frame.type \notin {"status", "progress", "completed"})
       => /\ UNCHANGED <<taskProgress, wsConnected, ws, reconnectTimeout, timers>>
          /\ invalidated' = <<>>
          /\ sent' = <<>>]_vars

\* an "error" message was handled while a snapshot was held
C26_Witness ==
    /\ lastEvent = Event("message", Json("error", Null))
    /\ taskProgress # Null
    /\ ws.readyState = "open"
    /\ isMounted

\* C27: a fetchApi call issues at most Retries + 1 requests; once it is over
\* it has returned the body of the last response or thrown the error of the
\* last request, never 'Failed after retries'; and every call that has
\* started is eventually over.
C27_Terminates ==
    /\ [](/\ requests <= Retries + 1
          /\ attempt <= Retries
          /\ Done =>
                /\ outcome # Threw(AfterRetriesError)
                /\ \/ outcome = Threw(NetworkError)
                   \/ /\ response # NoResponse
                      /\ outcome = AttemptResponse(response).outcome)
    /\ (hpc \in {"fetching", "waiting"}) ~> Done

\* the third request was answered after two network failures
C27_Witness ==
    /\ hpc = "done"
    /\ requests = Retries + 1
    /\ retried = <<"network", "network">>
    /\ outcome.kind = "value"

\* C28: once Layout has mounted, the store's theme equals the stored 'theme'
\* item, the document root carries 'dark' exactly when the theme is dark,
\* and toggling twice gives the theme back.
C28_ThemeConsistent ==
    layout = "mounted"
        => /\ theme = storage
           /\ rootDark <=> theme = "dark"
           /\ ToggleOf(ToggleOf(theme)) = theme

\* C29: every setter of the task store leaves the four other fields
\* unchanged, and reset gives the created state.
C29_SettersFramed ==
    [][/\ lastEvent'.kind = "setActiveTask"
            => UNCHANGED <<taskStatus, taskProgress, analytics, wsConnected>>
       /\ lastEvent'.kind = "setTaskStatus"
            => UNCHANGED <<activeTaskId, taskProgress, analytics, wsConnected>>
       /\ lastEvent'.kind = "setTaskProgress"
            => UNCHANGED <<activeTaskId, taskStatus, analytics, wsConnected>>
       /\ lastEvent'.kind = "setAnalytics"
            => UNCHANGED <<activeTaskId, taskStatus, taskProgress, wsConnected>>
       /\ lastEvent'.kind = "setWsConnected"
            => UNCHANGED <<activeTaskId, taskStatus, taskProgress, analytics>>
       /\ lastEvent'.kind = "reset" => TaskStoreCreated']_vars

\* a setter has run on a store whose four other fields were all set
C29_Witness ==
    /\ lastEvent.kind = "setWsConnected"
    /\ wsConnected
    /\ activeTaskId # NullId
    /\ taskStatus # Null
    /\ taskProgress # Null
    /\ analytics # Null

====
